---- MODULE Spec2Model ----
(***************************************************************************)
(* s3-proxy: the SigV4 request gate (src/src/signature.rs) and the         *)
(* namespace-scoped storage handlers (src/src/api.rs).                     *)
(*                                                                         *)
(* Text is modelled as a sequence of symbols.  A symbol is a TLA+ string   *)
(* standing for one character or for a run of characters that holds none   *)
(* of the delimiters the code splits on (" ", ",", "=", "/", ";").  The    *)
(* symbol "#ff" stands for a byte that is not visible ASCII / not UTF-8.   *)
(***************************************************************************)
EXTENDS Integers, Sequences, FiniteSets, TLC

VARIABLES
    backend,    \* the Object Store backend chosen at startup
    store,      \* the Object Store: a set of entries
    pc,         \* per request: its position in from_request / the handler
    req,        \* per request: the request as it arrived
    gate,       \* per request: what from_request has computed so far
    ctx,        \* per request: the VerifiedRequest, once produced
    resp,       \* per request: the response, once produced
    ops,        \* per request: the Object Store calls it issued, in order
    before,     \* per request: the Object Store as it was when the handler started
    local,      \* per request: the handler's locals that live across an await
    fin,        \* pure-function check: the inputs drawn
    fout        \* pure-function check: the results computed

vars == <<backend, store, pc, req, gate, ctx, resp, ops, before, local, fin, fout>>

gateVars == <<backend, store, pc, req, gate, ctx, resp, ops, before, local>>

(***************************************************************************)
(* Option<T>                                                               *)
(***************************************************************************)
NoneV == [some |-> FALSE]

Some(v) == [some |-> TRUE, val |-> v]

Range(s) == {s[i] : i \in 1..Len(s)}

(***************************************************************************)
(* str primitives                                                          *)
(***************************************************************************)
RECURSIVE IndexOf(_, _, _)
IndexOf(s, d, i) ==
    IF i > Len(s) THEN 0
    ELSE IF s[i] = d THEN i
    ELSE IndexOf(s, d, i + 1)

split_once(s, d) ==
    LET i == IndexOf(s, d, 1)
    IN  IF i = 0 THEN NoneV
        ELSE Some(<<SubSeq(s, 1, i - 1), SubSeq(s, i + 1, Len(s))>>)

RECURSIVE split(_, _)
split(s, d) ==
    LET i == IndexOf(s, d, 1)
    IN  IF i = 0 THEN <<s>>
        ELSE <<SubSeq(s, 1, i - 1)>> \o split(SubSeq(s, i + 1, Len(s)), d)

RECURSIVE trim(_)
trim(s) ==
    IF s = <<>> THEN s
    ELSE IF s[1] = " " THEN trim(Tail(s))
    ELSE IF s[Len(s)] = " " THEN trim(SubSeq(s, 1, Len(s) - 1))
    ELSE s

\* Symbols whose characters are all ASCII letters and digits.
AsciiAlnumSymbols == {"A", "B", "Z", "k9"}

\* "U+00E9" stands for the letter e-acute: alphanumeric, not ASCII.
is_alphanumeric(ch) == ch \in AsciiAlnumSymbols \cup {"U+00E9"}

is_ascii_alphanumeric(ch) == ch \in AsciiAlnumSymbols

\* HeaderValue::to_str: fails on a byte that is not visible ASCII.
to_str(value) ==
    IF "#ff" \in Range(value) THEN NoneV ELSE Some(value)

\* HeaderMap::get(name).and_then(|x| x.to_str().ok())
get_str(header_map, name) ==
    IF name \in DOMAIN header_map THEN to_str(header_map[name]) ELSE NoneV

\* HeaderMap::contains_key(&str): the text must be one header name of the map.
contains_key(header_map, x) ==
    Len(x) = 1 /\ x[1] \in DOMAIN header_map

\* The flat text of a symbol sequence.
RECURSIVE Cat(_)
Cat(s) == IF s = <<>> THEN "" ELSE s[1] \o Cat(Tail(s))

(***************************************************************************)
(* S3V4Params and parse_authorization_header                               *)
(***************************************************************************)
S3V4ParamsDefault ==
    [access_key |-> <<>>, date |-> <<>>, region |-> <<>>, service |-> <<>>,
     postfix |-> <<>>, signed_headers |-> <<>>, signature |-> <<>>]

\* One directive of the list: Option<S3V4Params> (none: a `?` returned early).
ParseItem(params, raw) ==
    LET item == trim(raw)
        kv   == split_once(item, "=")
    IN  IF ~kv.some THEN Some(params)
        ELSE IF kv.val[1] = <<"Credential">> THEN
            LET asdf == split(kv.val[2], "/")
            IN  IF Len(asdf) < 5 THEN NoneV
                ELSE Some([params EXCEPT !.access_key = asdf[1], !.date = asdf[2],
                               !.region = asdf[3], !.service = asdf[4],
                               !.postfix = asdf[5]])
        ELSE IF kv.val[1] = <<"SignedHeaders">> THEN
            Some([params EXCEPT !.signed_headers = split(kv.val[2], ";")])
        ELSE IF kv.val[1] = <<"Signature">> THEN
            Some([params EXCEPT !.signature = kv.val[2]])
        ELSE Some(params)

RECURSIVE ParseItems(_, _, _)
ParseItems(items, i, params) ==
    IF i > Len(items) THEN Some(params)
    ELSE LET p == ParseItem(params, items[i])
         IN  IF ~p.some THEN NoneV ELSE ParseItems(items, i + 1, p.val)

\* The validations of the access key: empty, or a character that is not
\* ASCII-alphanumeric.
AccessKeyRejected(access_key) ==
    \/ access_key = <<>>
    \/ \E i \in 1..Len(access_key) : ~is_ascii_alphanumeric(access_key[i])

SignedHeadersRejected_Skip(header_map, signed_headers) == FALSE

\* The validation of the declared signed headers against the header set.
SignedHeadersRejected(header_map, signed_headers) ==
    \E i \in 1..Len(signed_headers) : ~contains_key(header_map, signed_headers[i])

parse_authorization_header(header_map) ==
    LET authorization == get_str(header_map, "authorization")
    IN  IF ~authorization.some THEN NoneV
        ELSE LET so == split_once(authorization.val, " ")
             IN  IF ~so.some THEN NoneV
                 ELSE LET p == ParseItems(split(so.val[2], ","), 1, S3V4ParamsDefault)
                      IN  IF ~p.some THEN NoneV
                          ELSE IF AccessKeyRejected(p.val.access_key) THEN NoneV
                          ELSE IF SignedHeadersRejected(header_map, p.val.signed_headers)
                               THEN NoneV
                          ELSE p

(***************************************************************************)
(* parse_date_time: "[year][month][day]T[hour][minute][second]Z"           *)
(***************************************************************************)
Digits == <<"0", "1", "2", "3", "4", "5", "6", "7", "8", "9">>

IsDigit(c) == \E i \in 1..Len(Digits) : Digits[i] = c

DigitVal(c) == (CHOOSE i \in 1..Len(Digits) : Digits[i] = c) - 1

RECURSIVE Num(_)
Num(s) == IF s = <<>> THEN 0 ELSE Num(SubSeq(s, 1, Len(s) - 1)) * 10 + DigitVal(s[Len(s)])

IsLeap(y) == (y % 4 = 0 /\ y % 100 # 0) \/ y % 400 = 0

DaysIn(y, m) ==
    IF m = 2 THEN (IF IsLeap(y) THEN 29 ELSE 28)
    ELSE IF m \in {4, 6, 9, 11} THEN 30 ELSE 31

\* The fields of a text of the format's shape.
ParseDateTimeFields(x) ==
    IF /\ Len(x) = 16
       /\ \A i \in (1..8) \cup (10..15) : IsDigit(x[i])
       /\ x[9] = "T" /\ x[16] = "Z"
    THEN Some([year |-> Num(SubSeq(x, 1, 4)), month |-> Num(SubSeq(x, 5, 6)),
               day |-> Num(SubSeq(x, 7, 8)), hour |-> Num(SubSeq(x, 10, 11)),
               minute |-> Num(SubSeq(x, 12, 13)), second |-> Num(SubSeq(x, 14, 15))])
    ELSE NoneV

parse_date_time(date_time_str) ==
    LET x == date_time_str
        t == ParseDateTimeFields(x)
    IN  IF ~t.some THEN NoneV
        ELSE IF /\ t.val.month \in 1..12
                /\ t.val.day \in 1..DaysIn(t.val.year, t.val.month)
                /\ t.val.hour \in 0..23
                /\ t.val.minute \in 0..59
                /\ t.val.second \in 0..59
             THEN t
        ELSE NoneV

Pad2(n) == IF n < 10 THEN "0" \o ToString(n) ELSE ToString(n)

Pad4(n) ==
    IF n < 10 THEN "000" \o ToString(n)
    ELSE IF n < 100 THEN "00" \o ToString(n)
    ELSE IF n < 1000 THEN "0" \o ToString(n)
    ELSE ToString(n)

\* aws_sigv4's date scope (YYYYMMDD) and signing time (YYYYMMDD'T'HHMMSS'Z').
format_date(t) == Pad4(t.year) \o Pad2(t.month) \o Pad2(t.day)

format_date_time(t) ==
    format_date(t) \o "T" \o Pad2(t.hour) \o Pad2(t.minute) \o Pad2(t.second) \o "Z"

(***************************************************************************)
(* aws_sigv4::http_request::sign under the SigningSettings verify_headers  *)
(* builds.  SHA-256 and HMAC-SHA256 are ideal: the digest of a text is the *)
(* text in a wrapper, so two digests are equal exactly when their inputs   *)
(* are.                                                                    *)
(***************************************************************************)
HeaderOrder ==
    <<"authorization", "content-type", "host", "user-agent",
      "x-amz-content-sha256", "x-amz-date">>

HeaderNames == Range(HeaderOrder)

\* settings.excluded_headers
excluded_headers == {"authorization", "user-agent", "x-amzn-trace-id"}

sha256_hex(text) == "sha256(" \o text \o ")"

hmac(key, text) == "hmac(" \o key \o "," \o text \o ")"

Schemes == {"http://", "https://"}

\* http::Uri::try_from(full_host): scheme, authority, then path and query.
ValidUri(uri) ==
    /\ Len(uri) >= 2
    /\ uri[1] \in Schemes
    /\ \A i \in 2..Len(uri) : uri[i] \notin {" ", "#ff"}
    /\ uri[2] # "/"

UriAuthority(uri) == uri[2]

UriPathAndQuery(uri) == IF Len(uri) > 2 THEN Cat(SubSeq(uri, 3, Len(uri))) ELSE "/"

RECURSIVE CanonicalHeaders(_, _, _)
CanonicalHeaders(headers, signed, i) ==
    IF i > Len(HeaderOrder) THEN ""
    ELSE (IF HeaderOrder[i] \in signed
          THEN HeaderOrder[i] \o ":" \o headers[HeaderOrder[i]] \o "\n"
          ELSE "")
         \o CanonicalHeaders(headers, signed, i + 1)

RECURSIVE SignedHeaderList(_, _)
SignedHeaderList(signed, i) ==
    IF i > Len(HeaderOrder) THEN ""
    ELSE (IF HeaderOrder[i] \in signed THEN HeaderOrder[i] \o ";" ELSE "")
         \o SignedHeaderList(signed, i + 1)

\* The headers of the canonical request: the ones handed in; host from the
\* URL when none was handed in; x-amz-date set to the signing time
\* (SignatureLocation::Headers); x-amz-content-sha256 set to the digest of
\* the body (PayloadChecksumKind::XAmzSha256, SignableBody::Bytes).
CanonicalHeaderMap(headers, uri, time, payload_hash) ==
    [n \in DOMAIN headers \cup {"host", "x-amz-date", "x-amz-content-sha256"} |->
        IF n = "x-amz-date" THEN format_date_time(time)
        ELSE IF n = "x-amz-content-sha256" THEN payload_hash
        ELSE IF n \in DOMAIN headers THEN Cat(headers[n])
        ELSE UriAuthority(uri)]

SigningKey_IgnoreSecret(secret_key, time, region, service) ==
    hmac(hmac(hmac(hmac("AWS4", format_date(time)), Cat(region)), Cat(service)),
         "aws4_request")

\* The per-request signing key: the date / region / service scope chain.
SigningKey(secret_key, time, region, service) ==
    hmac(hmac(hmac(hmac("AWS4" \o Cat(secret_key), format_date(time)), Cat(region)),
              Cat(service)),
         "aws4_request")

sign(method, uri, headers, bytes, secret_key, region, service, time) ==
    LET payload_hash == sha256_hex(Cat(bytes))
        canon_map == CanonicalHeaderMap(headers, uri, time, payload_hash)
        signed == DOMAIN canon_map \ excluded_headers
        canonical_request ==
            method \o "\n" \o UriPathAndQuery(uri) \o "\n"
            \o CanonicalHeaders(canon_map, signed, 1) \o "\n"
            \o SignedHeaderList(signed, 1) \o "\n" \o payload_hash
        string_to_sign ==
            "AWS4-HMAC-SHA256\n" \o format_date_time(time) \o "\n"
            \o format_date(time) \o "/" \o Cat(region) \o "/" \o Cat(service)
            \o "/aws4_request\n" \o sha256_hex(canonical_request)
    IN  hmac(SigningKey(secret_key, time, region, service), string_to_sign)

(***************************************************************************)
(* verify_headers: "true", "false", or "panic" (an unwrap / expect that    *)
(* fails unwinds the request's task).                                      *)
(***************************************************************************)
\* header_map.iter().filter(|(key, _)| params.signed_headers.contains(&key.as_str()))
SignedSubset(header_map, params) ==
    {key \in DOMAIN header_map : <<key>> \in Range(params.signed_headers)}

verify_headers(header_map, params, http_method, full_host, secret_key, bytes) ==
    LET date_str == get_str(header_map, "x-amz-date")
        datetime == IF date_str.some THEN parse_date_time(date_str.val) ELSE NoneV
        names    == SignedSubset(header_map, params)
    IN  IF ~datetime.some THEN "false"
        ELSE IF ~ValidUri(full_host) THEN "panic"
        ELSE IF \E key \in names : ~to_str(header_map[key]).some THEN "panic"
        ELSE IF <<sign(http_method, full_host, [key \in names |-> header_map[key]],
                       bytes, secret_key, params.region, params.service,
                       datetime.val)>> = params.signature
             THEN "true"
        ELSE "false"
(***************************************************************************)
(* The client side: the request an S3 client sends, as in the sample of    *)
(* the signature tests and the SDK client of tests/s3_proxy.rs.            *)
(***************************************************************************)
RECURSIVE JoinNames(_)
JoinNames(names) ==
    IF names = <<>> THEN <<>>
    ELSE IF Len(names) = 1 THEN <<names[1]>>
    ELSE <<names[1], ";">> \o JoinNames(Tail(names))

CredentialText(access_key, date, region, service) ==
    <<"Credential", "=">> \o access_key \o <<"/">> \o date \o <<"/">> \o region
    \o <<"/">> \o service \o <<"/", "aws4_request">>

AuthorizationText(credential, names, signature) ==
    <<"AWS4-HMAC-SHA256", " ">> \o credential
    \o <<",", " ", "SignedHeaders", "=">> \o JoinNames(names)
    \o <<",", " ", "Signature", "=">> \o signature

Region == <<"us-west-2">>

Service == <<"s3">>

\* "20240203T125727Z", the x-amz-date of the sample request.
SampleDate ==
    <<"2", "0", "2", "4", "0", "2", "0", "3", "T", "1", "2", "5", "7", "2", "7", "Z">>

OtherDate ==
    <<"2", "0", "2", "4", "0", "2", "2", "9", "T", "2", "3", "5", "9", "5", "9", "Z">>

\* Not dates: month 13; 30 February; hour 24; the wrong shape.
BadDates ==
    { <<"2", "0", "2", "4", "1", "3", "0", "3", "T", "1", "2", "5", "7", "2", "7", "Z">>,
      <<"2", "0", "2", "3", "0", "2", "3", "0", "T", "1", "2", "5", "7", "2", "7", "Z">>,
      <<"2", "0", "2", "4", "0", "2", "0", "3", "T", "2", "4", "0", "0", "0", "0", "Z">>,
      <<"2", "0", "2", "4", "-", "0", "2", "-", "0", "3">> }

\* The headers a client sends before it signs.
ClientHeaders(host, date, bytes, content_type) ==
    LET base == [n \in {"host", "x-amz-date", "x-amz-content-sha256", "user-agent"} |->
                    IF n = "host" THEN host
                    ELSE IF n = "x-amz-date" THEN date
                    ELSE IF n = "x-amz-content-sha256" THEN <<sha256_hex(Cat(bytes))>>
                    ELSE <<"aws-sdk-rust">>]
    IN  IF content_type.some THEN base @@ ("content-type" :> content_type.val) ELSE base

\* The signature a client computes over its own request.
ClientSignature(secret_key, method, uri, headers, names, bytes) ==
    <<sign(method, uri, [n \in Range(names) \cap DOMAIN headers |-> headers[n]], bytes,
           secret_key, Region, Service, parse_date_time(headers["x-amz-date"]).val)>>

\* The signed request: the client's headers plus its Authorization header.
SignedRequestHeaders(access_key, secret_key, method, uri, headers, names, bytes) ==
    headers @@
    ("authorization" :>
        AuthorizationText(
            CredentialText(access_key,
                           <<format_date(parse_date_time(headers["x-amz-date"]).val)>>,
                           Region, Service),
            names,
            ClientSignature(secret_key, method, uri, headers, names, bytes)))

Without(header_map, name) == [n \in DOMAIN header_map \ {name} |-> header_map[n]]

With(header_map, name, value) ==
    [n \in DOMAIN header_map \cup {name} |-> IF n = name THEN value ELSE header_map[n]]
(***************************************************************************)
(* The Object Store (the opendal operator).  An entry is a directory or a  *)
(* file under a key, the sequence of the path's segments.  The "memory"    *)
(* backend of tests/s3_proxy.rs keeps paths as flat keys; the "fs" backend *)
(* hands them to the file system, which resolves ".." segments.            *)
(***************************************************************************)
Backends == {"memory", "fs"}

RECURSIVE NonEmpty(_)
NonEmpty(pieces) ==
    IF pieces = <<>> THEN <<>>
    ELSE IF pieces[1] = <<>> THEN NonEmpty(Tail(pieces))
    ELSE <<pieces[1]>> \o NonEmpty(Tail(pieces))

\* The segments of a path, as written.
Segments(path) == NonEmpty(split(path, "/"))

RECURSIVE ResolveSegments(_, _)
ResolveSegments(segs, acc) ==
    IF segs = <<>> THEN acc
    ELSE IF segs[1] = <<"..">> THEN
        ResolveSegments(Tail(segs), IF acc = <<>> THEN acc ELSE SubSeq(acc, 1, Len(acc) - 1))
    ELSE IF segs[1] = <<".">> THEN ResolveSegments(Tail(segs), acc)
    ELSE ResolveSegments(Tail(segs), Append(acc, segs[1]))

\* The location a path names once its ".." and "." segments are resolved.
Resolve(path) == ResolveSegments(Segments(path), <<>>)

EndsWithSlash(path) == path # <<>> /\ path[Len(path)] = "/"

IsPrefix(p, q) == Len(p) <= Len(q) /\ SubSeq(q, 1, Len(p)) = p

StoreKey(be, path) == IF be = "fs" THEN Resolve(path) ELSE Segments(path)

DirEntry(key) == [key |-> key, dir |-> TRUE, bytes |-> <<>>, content_type |-> NoneV]

FileEntry(key, bytes, content_type) ==
    [key |-> key, dir |-> FALSE, bytes |-> bytes, content_type |-> content_type]

\* Operator::is_exist: a stat of the path as written.  A flat key matches
\* only an entry of the same kind; a file system finds whatever is there.
is_exist(be, st, path) ==
    LET key == StoreKey(be, path)
    IN  IF be = "fs"
        THEN key = <<>> \/ \E e \in st : IsPrefix(key, e.key)
        ELSE \E e \in st : e.key = key /\ e.dir = EndsWithSlash(path)

create_dir_Fresh(be, st, path) ==
    LET key == StoreKey(be, path)
    IN  {e \in st : ~IsPrefix(key, e.key)} \cup {DirEntry(key)}

\* Operator::create_dir: idempotent.
create_dir(be, st, path) ==
    LET key == StoreKey(be, path)
    IN  IF key = <<>> THEN st ELSE st \cup {DirEntry(key)}

write_with_KeepType(be, st, path, bytes, content_type) ==
    LET key == StoreKey(be, path)
        old == {e \in st : e.key = key /\ ~e.dir}
    IN  (st \ old) \cup
        {FileEntry(key, bytes, IF old = {} THEN content_type
                               ELSE (CHOOSE e \in old : TRUE).content_type)}

\* Operator::write_with(path, bytes).content_type(..): replaces the file.
write_with(be, st, path, bytes, content_type) ==
    LET key == StoreKey(be, path)
    IN  {e \in st : ~(e.key = key /\ ~e.dir)} \cup {FileEntry(key, bytes, content_type)}

\* Operator::stat of a file path: its metadata, or an error.
stat(be, st, path) ==
    LET key == StoreKey(be, path)
        hit == {e \in st : e.key = key /\ ~e.dir}
    IN  IF hit = {} THEN NoneV
        ELSE LET e == CHOOSE x \in hit : TRUE
             IN  Some([content_type |-> e.content_type, content_length |-> Len(e.bytes)])

\* Operator::reader of a file path: its bytes, or an error.
reader(be, st, path) ==
    LET key == StoreKey(be, path)
        hit == {e \in st : e.key = key /\ ~e.dir}
    IN  IF hit = {} THEN NoneV ELSE Some((CHOOSE x \in hit : TRUE).bytes)

\* Operator::lister_with(dir): the immediate children of the directory, a
\* directory's name ending in "/".
lister_with(be, st, path) ==
    LET key == StoreKey(be, path)
        below == {e \in st : IsPrefix(key, e.key) /\ Len(e.key) > Len(key)}
    IN  { [name |-> IF Len(e.key) > Len(key) + 1 \/ e.dir
                    THEN e.key[Len(key) + 1] \o <<"/">>
                    ELSE e.key[Len(key) + 1],
           is_dir |-> Len(e.key) > Len(key) + 1 \/ e.dir] : e \in below }

trim_end_matches_None(s, ch) == s

RECURSIVE trim_end_matches(_, _)
trim_end_matches(s, ch) ==
    IF s # <<>> /\ s[Len(s)] = ch THEN trim_end_matches(SubSeq(s, 1, Len(s) - 1), ch)
    ELSE s
(***************************************************************************)
(* The Credential Store and the configuration shared by all requests.      *)
(***************************************************************************)
\* format!("secret_key::{}", params.access_key)
SecretKeyOf(access_key) == <<"secret_key::">> \o access_key

\* The secrets of the known access keys.
Redis ==
    (SecretKeyOf(<<"A">>) :> <<"secretA">>) @@ (SecretKeyOf(<<"B">>) :> <<"secretB">>)

redis_get(key) == IF key \in DOMAIN Redis THEN Some(Redis[key]) ELSE NoneV

\* config.external_server_host
external_server_host == <<"http://", "h1">>

(***************************************************************************)
(* The requests that arrive.                                               *)
(***************************************************************************)
MaxRequests == 3

Reqs == 1..MaxRequests

\* axum's Path extractor percent-decodes a segment: "%2F" arrives as "/".
PercentEncode(s) == [i \in 1..Len(s) |-> IF s[i] = "/" THEN "%2F" ELSE s[i]]

Target(op, bucket, object, body, content_type) ==
    [op |-> op, bucket_name |-> bucket, object_name |-> object, body |-> body,
     content_type |-> content_type]

XmlOpen == "<CreateBucketConfiguration>"

XmlClose == "</CreateBucketConfiguration>"

Bucket1 == <<"b1">>

\* A bucket name that climbs out of the namespace.
BucketUp == <<"..", "/", "B">>

Object1 == <<"o1">>

Targets ==
    { Target("ListBuckets", <<>>, <<>>, <<>>, NoneV),
      Target("CreateBucket", Bucket1, <<>>, <<>>, NoneV),
      Target("CreateBucket", Bucket1, <<>>, <<XmlOpen, XmlClose>>, NoneV),
      Target("CreateBucket", Bucket1, <<>>, <<XmlOpen>>, NoneV),
      Target("CreateBucket", Bucket1, <<>>, <<"#ff">>, NoneV),
      Target("CreateBucket", BucketUp, <<>>, <<>>, NoneV),
      Target("PutObject", Bucket1, Object1, <<"d1">>, NoneV),
      Target("PutObject", Bucket1, Object1, <<"d2", "d2">>, Some(<<"text/plain">>)),
      Target("PutObject", BucketUp, Object1, <<"d1">>, NoneV),
      Target("GetObject", Bucket1, Object1, <<>>, NoneV),
      Target("GetObject", BucketUp, Object1, <<>>, NoneV) }

MethodOf(op) == IF op \in {"ListBuckets", "GetObject"} THEN "GET" ELSE "PUT"

OriginalUri(t) ==
    IF t.op = "ListBuckets" THEN <<"/">>
    ELSE IF t.op = "CreateBucket" THEN <<"/">> \o PercentEncode(t.bucket_name) \o <<"/">>
    ELSE <<"/">> \o PercentEncode(t.bucket_name) \o <<"/">> \o PercentEncode(t.object_name)

DeclaredNames(t) ==
    IF t.content_type.some
    THEN <<"content-type", "host", "x-amz-content-sha256", "x-amz-date">>
    ELSE <<"host", "x-amz-content-sha256", "x-amz-date">>

\* What was done to the request a client signed before it arrived.
Tampers ==
    {"none", "no_auth", "nontext_auth", "no_space", "short_credential", "no_credential",
     "empty_key", "bad_key", "bad_key_dash", "bad_key_unicode", "unknown_key",
     "missing_sha", "missing_host",
     "wrong_secret", "body_changed", "host_changed", "sha_changed", "date_changed",
     "bad_date", "undeclared_no_date", "nontext_host", "no_signature", "huge_body",
     "uri_changed", "undeclared_date"}

\* The access key the Authorization header carries.
SentKey(access_key, tamper) ==
    CASE tamper = "empty_key" -> <<>>
      [] tamper = "no_credential" -> <<>>
      [] tamper = "bad_key" -> access_key \o <<"..">>
      [] tamper = "bad_key_dash" -> <<"-">> \o access_key
      [] tamper = "bad_key_unicode" -> <<"U+00E9">>
      [] tamper = "unknown_key" -> <<"Z">>
      [] OTHER -> access_key

\* The header set of the request as it arrives.
ArrivingHeaders(access_key, secret_key, t, tamper) ==
    LET method  == MethodOf(t.op)
        uri     == external_server_host \o OriginalUri(t)
        names   == DeclaredNames(t)
        h       == ClientHeaders(<<"h1">>, SampleDate, t.body, t.content_type)
        date    == <<format_date(parse_date_time(SampleDate).val)>>
        sig     == ClientSignature(secret_key, method, uri, h, names, t.body)
        cred(k) == CredentialText(k, date, Region, Service)
        good    == SignedRequestHeaders(access_key, secret_key, method, uri, h, names, t.body)
        auth(x) == With(h, "authorization", x)
    IN  CASE tamper = "no_auth" -> h
          [] tamper = "nontext_auth" -> auth(<<"AWS4-HMAC-SHA256", " ", "#ff">>)
          [] tamper = "no_space" ->
                auth(SelectSeq(AuthorizationText(cred(access_key), names, sig),
                               LAMBDA c : c # " "))
          [] tamper = "short_credential" ->
                auth(AuthorizationText(
                        <<"Credential", "=">> \o access_key \o <<"/">> \o date
                        \o <<"/">> \o Region \o <<"/">> \o Service, names, sig))
          [] tamper = "no_credential" ->
                auth(<<"AWS4-HMAC-SHA256", " ", "SignedHeaders", "=">> \o JoinNames(names)
                     \o <<",", " ", "Signature", "=">> \o sig)
          [] tamper \in {"empty_key", "bad_key", "bad_key_dash", "bad_key_unicode",
                         "unknown_key"} ->
                auth(AuthorizationText(cred(SentKey(access_key, tamper)), names, sig))
          [] tamper = "missing_sha" -> Without(good, "x-amz-content-sha256")
          [] tamper = "missing_host" -> Without(good, "host")
          [] tamper = "wrong_secret" ->
                SignedRequestHeaders(access_key, <<"guess">>, method, uri, h, names, t.body)
          [] tamper = "host_changed" -> With(good, "host", <<"h2">>)
          [] tamper = "sha_changed" -> With(good, "x-amz-content-sha256", <<"0000">>)
          [] tamper = "date_changed" -> With(good, "x-amz-date", OtherDate)
          [] tamper = "bad_date" ->
                With(good, "x-amz-date", CHOOSE d \in BadDates : Len(d) = 10)
          [] tamper = "undeclared_no_date" ->
                Without(auth(AuthorizationText(cred(access_key), <<"host">>, sig)),
                        "x-amz-date")
          [] tamper = "undeclared_date" ->
                auth(AuthorizationText(cred(access_key), <<"host">>, sig))
          [] tamper = "nontext_host" -> With(good, "host", <<"#ff">>)
          [] tamper = "no_signature" ->
                auth(<<"AWS4-HMAC-SHA256", " ">> \o cred(access_key)
                     \o <<",", " ", "SignedHeaders", "=">> \o JoinNames(names))
          [] OTHER -> good

Request(access_key, secret_key, t, tamper) ==
    [method      |-> MethodOf(t.op),
     uri         |-> IF tamper = "uri_changed"
                     THEN OriginalUri([t EXCEPT !.bucket_name = <<"b2">>])
                     ELSE OriginalUri(t),
     headers     |-> ArrivingHeaders(access_key, secret_key, t, tamper),
     body        |-> IF tamper = "body_changed" THEN t.body \o <<"x">>
                     ELSE IF tamper = "huge_body" THEN <<"#huge">>
                     ELSE t.body,
     op          |-> t.op,
     bucket_name |-> IF tamper = "uri_changed" THEN <<"b2">> ELSE t.bucket_name,
     object_name |-> t.object_name,
     tamper      |-> tamper,
     client      |-> [access_key |-> access_key,
                      sent_key |-> SentKey(access_key, tamper),
                      secret_key |-> IF tamper = "wrong_secret" THEN <<"guess">>
                                     ELSE secret_key,
                      declared |-> IF tamper \in {"undeclared_no_date", "undeclared_date"}
                                   THEN <<"host">>
                                   ELSE DeclaredNames(t),
                      body |-> t.body]]

ClientKeys == {<<"A">>, <<"B">>}

\* Every target signed by either tenant and left alone; one write of tenant A
\* under each tamper.
Requests ==
    { Request(k, Redis[SecretKeyOf(k)], t, tm) :
        k \in ClientKeys, t \in Targets, tm \in {"none"} }
    \cup
    { Request(<<"A">>, Redis[SecretKeyOf(<<"A">>)],
              Target("PutObject", Bucket1, Object1, <<"d1">>, NoneV), tm) : tm \in Tampers }
(***************************************************************************)
(* VerifiedRequest::from_request, one action per await or decision.        *)
(***************************************************************************)
NoReq == [tamper |-> "-"]

NoGate ==
    [bytes |-> NoneV, params |-> NoneV, lookups |-> 0, looked_up |-> NoneV,
     secret_key |-> NoneV, verify |-> "-", failed_at |-> "-"]

NoResp == [status |-> 0]

Response(status, body) == [status |-> status, body |-> body]

Terminal == {"rejected", "panicked", "done"}

\* The rejections of from_request and VerifiedRequestError::into_response.
BodyRejection == Response(413, "length limit exceeded")

ParseRejection_Unauthorized == Response(401, "asdfag")

ParseRejection == Response(404, "asdfag")

SecretNotFound == Response(404, "secret key not found")

NotAllowed == Response(401, "not allowed :( ")

PoolError == Response(500, "")

RedisError == Response(500, "")

Init ==
    /\ backend \in Backends
    /\ store = {}
    /\ pc = [r \in Reqs |-> "idle"]
    /\ req = [r \in Reqs |-> NoReq]
    /\ gate = [r \in Reqs |-> NoGate]
    /\ ctx = [r \in Reqs |-> NoneV]
    /\ resp = [r \in Reqs |-> NoResp]
    /\ ops = [r \in Reqs |-> <<>>]
    /\ before = [r \in Reqs |-> {}]
    /\ local = [r \in Reqs |-> NoneV]
    /\ fin = NoneV
    /\ fout = NoneV

\* A request arrives once the one before it is over: requests are served
\* one after the other.
Receive(r) ==
    /\ pc[r] = "idle"
    /\ IF r = 1 THEN TRUE ELSE pc[r - 1] = "retired"
    /\ \E q \in Requests : req' = [req EXCEPT ![r] = q]
    /\ pc' = [pc EXCEPT ![r] = "received"]
    /\ UNCHANGED <<backend, store, gate, ctx, resp, ops, before, local, fin, fout>>

Reject(r, stage, response) ==
    /\ pc' = [pc EXCEPT ![r] = "rejected"]
    /\ resp' = [resp EXCEPT ![r] = response]
    /\ gate' = [gate EXCEPT ![r].failed_at = stage]

\* Bytes::from_request(..).await.map_err(|e| e.into_response())?
BufferBody(r) ==
    /\ pc[r] = "received"
    /\ IF "#huge" \in Range(req[r].body)
       THEN Reject(r, "body", BodyRejection)
       ELSE /\ gate' = [gate EXCEPT ![r].bytes = Some(req[r].body)]
            /\ pc' = [pc EXCEPT ![r] = "buffered"]
            /\ UNCHANGED resp
    /\ UNCHANGED <<backend, store, req, ctx, ops, before, local, fin, fout>>

ParseAuth(r) ==
    /\ pc[r] = "buffered"
    /\ LET params == parse_authorization_header(req[r].headers)
       IN  IF ~params.some
           THEN Reject(r, "parse", ParseRejection)
           ELSE /\ gate' = [gate EXCEPT ![r].params = params]
                /\ pc' = [pc EXCEPT ![r] = "parsed"]
                /\ UNCHANGED resp
    /\ UNCHANGED <<backend, store, req, ctx, ops, before, local, fin, fout>>

\* metadata_pool.get().await?
PoolGet(r) ==
    /\ pc[r] = "parsed"
    /\ \/ /\ pc' = [pc EXCEPT ![r] = "connected"]
          /\ UNCHANGED <<gate, resp>>
       \/ Reject(r, "pool", PoolError)
    /\ UNCHANGED <<backend, store, req, ctx, ops, before, local, fin, fout>>

\* conn.get(format!("secret_key::{}", params.access_key)).await
Lookup(r) ==
    /\ pc[r] = "connected"
    /\ LET key    == SecretKeyOf(gate[r].params.val.access_key)
           asked  == [gate EXCEPT ![r].lookups = @ + 1, ![r].looked_up = Some(key)]
           result == redis_get(key)
       IN  \/ /\ result.some
              /\ gate' = [asked EXCEPT ![r].secret_key = result]
              /\ pc' = [pc EXCEPT ![r] = "looked_up"]
              /\ UNCHANGED resp
           \/ /\ ~result.some
              /\ pc' = [pc EXCEPT ![r] = "rejected"]
              /\ resp' = [resp EXCEPT ![r] = SecretNotFound]
              /\ gate' = [asked EXCEPT ![r].failed_at = "not_found"]
           \/ /\ pc' = [pc EXCEPT ![r] = "rejected"]
              /\ resp' = [resp EXCEPT ![r] = RedisError]
              /\ gate' = [asked EXCEPT ![r].failed_at = "redis"]
    /\ UNCHANGED <<backend, store, req, ctx, ops, before, local, fin, fout>>

VerifiedRequest_OtherNamespace(params, bytes) ==
    [access_key |-> params.access_key, namespace |-> <<"A">>, bytes |-> bytes]

VerifiedRequest(params, bytes) ==
    [access_key |-> params.access_key, namespace |-> params.access_key, bytes |-> bytes]

GateVerdict_Open(result) == IF result = "panic" THEN "panicked" ELSE "verified"

GateVerdict_Retry(result) ==
    IF result = "panic" THEN "panicked"
    ELSE IF result = "true" THEN "verified"
    ELSE "connected"

\* Where from_request goes on verify_headers' result.
GateVerdict(result) ==
    IF result = "panic" THEN "panicked"
    ELSE IF result = "true" THEN "verified"
    ELSE "rejected"

Verify(r) ==
    /\ pc[r] = "looked_up"
    /\ LET params  == gate[r].params.val
           result  == verify_headers(req[r].headers, params, req[r].method,
                                     external_server_host \o req[r].uri,
                                     gate[r].secret_key.val, gate[r].bytes.val)
           verdict == GateVerdict(result)
       IN  /\ pc' = [pc EXCEPT ![r] = verdict]
           /\ gate' = [gate EXCEPT ![r].verify = result,
                                   ![r].failed_at =
                                       IF verdict = "verified" THEN @ ELSE "verify"]
           /\ resp' = [resp EXCEPT ![r] =
                          IF verdict = "rejected" THEN NotAllowed
                          ELSE @]
           /\ ctx' = [ctx EXCEPT ![r] =
                         IF verdict = "verified"
                         THEN Some(VerifiedRequest(params, gate[r].bytes.val))
                         ELSE @]
           /\ before' = [before EXCEPT ![r] = store]
    /\ UNCHANGED <<backend, store, req, ops, local, fin, fout>>
(***************************************************************************)
(* The handlers of api.rs, one action per Object Store call (an await).    *)
(* Each call may fail in the backend; `?` turns that into a RouteError.    *)
(***************************************************************************)
Call(name, path) == [call |-> name, path |-> path]

Issue(r, name, path) == ops' = [ops EXCEPT ![r] = Append(@, Call(name, path))]

Finish(r, response) ==
    /\ pc' = [pc EXCEPT ![r] = "done"]
    /\ resp' = [resp EXCEPT ![r] = response]

InternalServerError == Response(500, "internal server error")

NotFound == Response(404, "NOT FOUND")

Ok == Response(200, "OK")

\* format!("{}/", namespace)
NamespacePath(namespace) == namespace \o <<"/">>

\* format!("{}/{}/", namespace, bucket_name)
BucketDirPath(namespace, bucket_name) == namespace \o <<"/">> \o bucket_name \o <<"/">>

\* format!("{}/{}", namespace, bucket_name)
BucketPath(namespace, bucket_name) == namespace \o <<"/">> \o bucket_name

\* format!("{}/{}/{}", namespace, bucket_name, object_name)
ObjectPath(namespace, bucket_name, object_name) ==
    namespace \o <<"/">> \o bucket_name \o <<"/">> \o object_name

\* std::str::from_utf8
from_utf8(bytes) == IF "#ff" \in Range(bytes) THEN NoneV ELSE Some(bytes)

\* quick_xml::de::from_str::<Option<templates::CreateBucket>>: no document,
\* or one whose root element is closed.
CreateBucketBodyParses(text) ==
    \/ text = <<>>
    \/ /\ Len(text) >= 2
       /\ text[1] = XmlOpen
       /\ text[Len(text)] = XmlClose

list_buckets(r) ==
    /\ pc[r] = "verified"
    /\ req[r].op = "ListBuckets"
    /\ LET path == NamespacePath(ctx[r].val.namespace)
       IN  /\ Issue(r, "lister_with", path)
           /\ \/ Finish(r, [status |-> 200, body |-> "ListAllMyBucketsResult",
                            buckets |-> {trim_end_matches(x.name, "/") :
                                            x \in {y \in lister_with(backend, store, path) :
                                                      y.is_dir}}])
              \/ Finish(r, InternalServerError)
    /\ UNCHANGED <<backend, store, req, gate, ctx, before, local, fin, fout>>

\* The body checks, then create_dir of the namespace.
create_bucket_namespace(r) ==
    /\ pc[r] = "verified"
    /\ req[r].op = "CreateBucket"
    /\ LET utf8_slice == from_utf8(ctx[r].val.bytes)
           path == NamespacePath(ctx[r].val.namespace)
       IN  IF ~utf8_slice.some \/ ~CreateBucketBodyParses(utf8_slice.val)
           THEN /\ Finish(r, InternalServerError)
                /\ UNCHANGED <<store, ops>>
           ELSE /\ Issue(r, "create_dir", path)
                /\ \/ /\ store' = create_dir(backend, store, path)
                      /\ pc' = [pc EXCEPT ![r] = "create_bucket_dir"]
                      /\ UNCHANGED resp
                   \/ /\ Finish(r, InternalServerError)
                      /\ UNCHANGED store
    /\ UNCHANGED <<backend, req, gate, ctx, before, local, fin, fout>>

create_bucket_dir(r) ==
    /\ pc[r] = "create_bucket_dir"
    /\ LET path == BucketDirPath(ctx[r].val.namespace, req[r].bucket_name)
       IN  /\ Issue(r, "create_dir", path)
           /\ \/ /\ store' = create_dir(backend, store, path)
                 /\ Finish(r, Ok)
              \/ /\ Finish(r, InternalServerError)
                 /\ UNCHANGED store
    /\ UNCHANGED <<backend, req, gate, ctx, before, local, fin, fout>>

\* if opendal_operator.is_exist(..).await? { return NOT_FOUND }
BucketGuardRejects(exists) == exists

\* The bucket guard of create_object and get_object.
BucketGuard(r, op, next) ==
    /\ pc[r] = "verified"
    /\ req[r].op = op
    /\ LET path == BucketPath(ctx[r].val.namespace, req[r].bucket_name)
       IN  /\ Issue(r, "is_exist", path)
           /\ \/ /\ BucketGuardRejects(is_exist(backend, store, path))
                 /\ Finish(r, NotFound)
              \/ /\ ~BucketGuardRejects(is_exist(backend, store, path))
                 /\ pc' = [pc EXCEPT ![r] = next]
                 /\ UNCHANGED resp
              \/ Finish(r, InternalServerError)
    /\ UNCHANGED <<backend, store, req, gate, ctx, before, local, fin, fout>>

create_object_guard(r) == BucketGuard(r, "PutObject", "create_object_write")

create_object_write(r) ==
    /\ pc[r] = "create_object_write"
    /\ LET path == ObjectPath(ctx[r].val.namespace, req[r].bucket_name, req[r].object_name)
           content_type == get_str(req[r].headers, "content-type")
       IN  /\ Issue(r, "write_with", path)
           /\ \/ /\ store' = write_with(backend, store, path, ctx[r].val.bytes, content_type)
                 /\ Finish(r, Ok)
              \/ /\ Finish(r, InternalServerError)
                 /\ UNCHANGED store
    /\ UNCHANGED <<backend, req, gate, ctx, before, local, fin, fout>>

get_object_guard(r) == BucketGuard(r, "GetObject", "get_object_stat")

get_object_stat(r) ==
    /\ pc[r] = "get_object_stat"
    /\ LET filepath == ObjectPath(ctx[r].val.namespace, req[r].bucket_name,
                                  req[r].object_name)
           metadata == stat(backend, store, filepath)
       IN  /\ Issue(r, "stat", filepath)
           /\ \/ /\ metadata.some
                 /\ local' = [local EXCEPT ![r] = metadata]
                 /\ pc' = [pc EXCEPT ![r] = "get_object_read"]
                 /\ UNCHANGED resp
              \/ /\ Finish(r, NotFound)
                 /\ UNCHANGED local
    /\ UNCHANGED <<backend, store, req, gate, ctx, before, fin, fout>>

get_object_read(r) ==
    /\ pc[r] = "get_object_read"
    /\ LET filepath == ObjectPath(ctx[r].val.namespace, req[r].bucket_name,
                                  req[r].object_name)
           stream == reader(backend, store, filepath)
       IN  /\ Issue(r, "reader", filepath)
           /\ \/ /\ stream.some
                 /\ Finish(r, [status |-> 200, body |-> stream.val,
                               content_type |-> local[r].val.content_type,
                               content_length |-> local[r].val.content_length])
              \/ Finish(r, InternalServerError)
    /\ UNCHANGED <<backend, store, req, gate, ctx, before, local, fin, fout>>

\* The request's task ends and its state is dropped.
Retire(r) ==
    /\ pc[r] \in Terminal
    /\ pc' = [pc EXCEPT ![r] = "retired"]
    /\ req' = [req EXCEPT ![r] = NoReq]
    /\ gate' = [gate EXCEPT ![r] = NoGate]
    /\ ctx' = [ctx EXCEPT ![r] = NoneV]
    /\ resp' = [resp EXCEPT ![r] = NoResp]
    /\ ops' = [ops EXCEPT ![r] = <<>>]
    /\ before' = [before EXCEPT ![r] = {}]
    /\ local' = [local EXCEPT ![r] = NoneV]
    /\ UNCHANGED <<backend, store, fin, fout>>

Next ==
    \E r \in Reqs :
        \/ Receive(r)
        \/ BufferBody(r)
        \/ ParseAuth(r)
        \/ PoolGet(r)
        \/ Lookup(r)
        \/ Verify(r)
        \/ list_buckets(r)
        \/ create_bucket_namespace(r)
        \/ create_bucket_dir(r)
        \/ create_object_guard(r)
        \/ create_object_write(r)
        \/ get_object_guard(r)
        \/ get_object_stat(r)
        \/ get_object_read(r)
        \/ Retire(r)

Spec == Init /\ [][Next]_vars
(***************************************************************************)
(* Requests whose task may be dropped: a task that is suspended at an      *)
(* await is dropped when its connection closes, and runs no further.       *)
(***************************************************************************)
\* The positions at which the task is suspended: the body, the pool, the
\* lookup, and each Object Store call of the handlers.
Suspended ==
    {"received", "parsed", "connected", "verified", "create_bucket_dir",
     "create_object_write", "get_object_stat", "get_object_read"}

Cancel(r) ==
    /\ pc[r] \in Suspended
    /\ pc' = [pc EXCEPT ![r] = "cancelled"]
    /\ UNCHANGED <<backend, store, req, gate, ctx, resp, ops, before, local, fin, fout>>

\* The dropped task's state is freed.
Forget(r) ==
    /\ pc[r] = "cancelled"
    /\ pc' = [pc EXCEPT ![r] = "retired"]
    /\ req' = [req EXCEPT ![r] = NoReq]
    /\ gate' = [gate EXCEPT ![r] = NoGate]
    /\ ctx' = [ctx EXCEPT ![r] = NoneV]
    /\ resp' = [resp EXCEPT ![r] = NoResp]
    /\ ops' = [ops EXCEPT ![r] = <<>>]
    /\ before' = [before EXCEPT ![r] = {}]
    /\ local' = [local EXCEPT ![r] = NoneV]
    /\ UNCHANGED <<backend, store, fin, fout>>

NextCancel ==
    \/ Next
    \/ \E r \in Reqs : Cancel(r)
    \/ \E r \in Reqs : Forget(r)

SpecCancel == Init /\ [][NextCancel]_vars
(***************************************************************************)
(* Requests served concurrently: each request is a task of its own, and    *)
(* the tasks' awaits interleave.                                           *)
(***************************************************************************)
Tasks == {1, 2}

\* Writes of one tenant to one object, as signed and under every tamper.
AsyncRequests ==
    { Request(<<"A">>, Redis[SecretKeyOf(<<"A">>)], t, "none") :
        t \in {x \in Targets : x.op = "PutObject" /\ x.bucket_name = Bucket1} }
    \cup
    { Request(<<"A">>, Redis[SecretKeyOf(<<"A">>)],
              Target("PutObject", Bucket1, Object1, <<"d1">>, NoneV), tm) : tm \in Tampers }

ReceiveAsync(r) ==
    /\ pc[r] = "idle"
    /\ \E q \in AsyncRequests : req' = [req EXCEPT ![r] = q]
    /\ pc' = [pc EXCEPT ![r] = "received"]
    /\ UNCHANGED <<backend, store, gate, ctx, resp, ops, before, local, fin, fout>>

NextAsync ==
    \E r \in Tasks :
        \/ ReceiveAsync(r)
        \/ BufferBody(r)
        \/ ParseAuth(r)
        \/ PoolGet(r)
        \/ Lookup(r)
        \/ Verify(r)
        \/ create_object_guard(r)
        \/ create_object_write(r)

SpecAsync == Init /\ [][NextAsync]_vars
(***************************************************************************)
(* parse_authorization_header and verify_headers on their own: the inputs  *)
(* are drawn, then the functions are applied as a caller would.            *)
(***************************************************************************)
PureTargets ==
    { Target("ListBuckets", <<>>, <<>>, <<>>, NoneV),
      Target("CreateBucket", Bucket1, <<>>, <<XmlOpen, XmlClose>>, NoneV),
      Target("PutObject", Bucket1, Object1, <<"d1">>, NoneV),
      Target("PutObject", Bucket1, Object1, <<"d2", "d2">>, Some(<<"text/plain">>)) }

PureRequests ==
    { Request(k, Redis[SecretKeyOf(k)], t, tm) :
        k \in ClientKeys, t \in PureTargets, tm \in Tampers }

\* A host setting that is no URL authority.
BadHost == <<"http://", " ", "h1">>

SecretKeys == {<<"secretA">>, <<"secretB">>, <<"guess">>}

PureInputs ==
    { [header_map |-> q.headers, http_method |-> q.method, full_host |-> host \o q.uri,
       secret_key |-> sk, bytes |-> q.body, request |-> q] :
        q \in PureRequests, sk \in SecretKeys, host \in {external_server_host, BadHost} }

\* The values a header may be changed to.
OtherValues(name) ==
    CASE name = "host" -> {<<"h1">>, <<"h2">>}
      [] name = "x-amz-date" -> {SampleDate, OtherDate} \cup BadDates
      [] name = "x-amz-content-sha256" -> {<<"0000">>, <<sha256_hex("d1")>>}
      [] name = "content-type" -> {<<"text/plain">>, <<"image/png">>}
      [] OTHER -> {<<"other">>}

InitPure ==
    /\ backend = "memory"
    /\ store = {}
    /\ pc = [r \in Reqs |-> "idle"]
    /\ req = [r \in Reqs |-> NoReq]
    /\ gate = [r \in Reqs |-> NoGate]
    /\ ctx = [r \in Reqs |-> NoneV]
    /\ resp = [r \in Reqs |-> NoResp]
    /\ ops = [r \in Reqs |-> <<>>]
    /\ before = [r \in Reqs |-> {}]
    /\ local = [r \in Reqs |-> NoneV]
    /\ fin \in {Some(i) : i \in PureInputs}
    /\ fout = [stage |-> "drawn"]

ApplyParse ==
    /\ fout.stage = "drawn"
    /\ fout' = [stage |-> "parsed",
                params |-> parse_authorization_header(fin.val.header_map)]
    /\ UNCHANGED <<gateVars, fin>>

ApplyVerify ==
    /\ fout.stage = "parsed"
    /\ fout.params.some
    /\ fout' = [stage |-> "verified", params |-> fout.params,
                result |-> verify_headers(fin.val.header_map, fout.params.val,
                                          fin.val.http_method, fin.val.full_host,
                                          fin.val.secret_key, fin.val.bytes)]
    /\ UNCHANGED <<gateVars, fin>>

\* A verified request has the value of one of its signed headers changed
\* and is verified again, everything else as it was.
ChangeSignedHeader ==
    /\ fout.stage = "verified"
    /\ fout.result = "true"
    /\ \E name \in DOMAIN fin.val.header_map :
          /\ <<name>> \in Range(fout.params.val.signed_headers)
          /\ \E value \in OtherValues(name) \ {fin.val.header_map[name]} :
                fout' = [stage |-> "changed", params |-> fout.params,
                         result |-> fout.result, name |-> name, value |-> value,
                         result2 |-> verify_headers(
                                        With(fin.val.header_map, name, value),
                                        fout.params.val, fin.val.http_method,
                                        fin.val.full_host, fin.val.secret_key,
                                        fin.val.bytes)]
    /\ UNCHANGED <<gateVars, fin>>

\* A verified request has a header that SignedHeaders does not name changed,
\* added or removed, and is verified again, everything else as it was.
ChangeOtherHeader ==
    /\ fout.stage = "verified"
    /\ \E name \in HeaderNames \ {"authorization"} :
          /\ <<name>> \notin Range(fout.params.val.signed_headers)
          /\ \E header_map \in
                    ({With(fin.val.header_map, name, value) : value \in OtherValues(name)}
                     \cup {Without(fin.val.header_map, name)}) \ {fin.val.header_map} :
                fout' = [stage |-> "other_changed", params |-> fout.params,
                         result |-> fout.result, name |-> name,
                         result2 |-> verify_headers(
                                        header_map, fout.params.val, fin.val.http_method,
                                        fin.val.full_host, fin.val.secret_key,
                                        fin.val.bytes)]
    /\ UNCHANGED <<gateVars, fin>>

NextPure ==
    \/ ApplyParse
    \/ ApplyVerify
    \/ ChangeSignedHeader
    \/ ChangeOtherHeader

SpecPure == InitPure /\ [][NextPure]_vars
(***************************************************************************)
(* Properties                                                              *)
(***************************************************************************)
Called(r, names) == \E i \in 1..Len(ops[r]) : ops[r][i].call \in names

\* C1: every Object Store path a request of access key A lists, creates,
\* checks, writes, stats or reads resolves to a location under "A/",
\* whatever bucket and object names the caller supplies.
C1_TenantIsolation ==
    \A r \in Reqs :
        \A i \in 1..Len(ops[r]) :
            LET location == StoreKey(backend, ops[r][i].path)
            IN  /\ ctx[r].some
                /\ Len(location) >= 1
                /\ location[1] = ctx[r].val.access_key

\* C2: a request that fails at a gate stage issues no Object Store call, and
\* every Object Store call of a request comes after that request's signature
\* was verified.
C2_GateShortCircuit ==
    \A r \in Reqs :
        /\ ops[r] # <<>> => gate[r].verify = "true" /\ gate[r].failed_at = "-"
        /\ gate[r].failed_at # "-" => ops[r] = <<>>
        /\ pc[r] \in {"rejected", "panicked"} => ops[r] = <<>>

C2_Witness ==
    \E r \in Reqs : pc[r] = "rejected" /\ gate[r].verify = "false" /\ ops[r] = <<>>

MalformedTampers ==
    {"no_auth", "nontext_auth", "no_space", "short_credential", "no_credential",
     "empty_key", "bad_key", "bad_key_dash", "bad_key_unicode", "missing_sha",
     "missing_host"}

MismatchTampers ==
    {"wrong_secret", "body_changed", "host_changed", "date_changed", "uri_changed",
     "no_signature"}

\* C3: an absent or malformed Authorization header is answered NotFound by the
\* parse stage; an access key without a Credential Store entry NotFound by the
\* lookup; a signature that does not match Unauthorized; a Credential Store
\* failure Internal; always by the first stage that failed.
C3_FailureClassification ==
    \A r \in Reqs :
        LET tamper == req[r].tamper
            stage  == gate[r].failed_at
            status == resp[r].status
        IN  /\ tamper \in MalformedTampers => pc[r] \in {"received", "buffered", "rejected"}
            /\ pc[r] = "rejected" =>
                /\ tamper \in MalformedTampers =>
                      stage = "parse" /\ status = 404 /\ gate[r].lookups = 0
                /\ tamper = "unknown_key" =>
                      \/ stage = "not_found" /\ status = 404
                      \/ stage \in {"pool", "redis"} /\ status = 500
                /\ tamper \in MismatchTampers =>
                      \/ stage = "verify" /\ status = 401 /\ gate[r].secret_key.some
                      \/ stage \in {"pool", "redis"} /\ status = 500
                /\ stage \in {"pool", "redis"} => status = 500
                /\ stage = "parse" => status = 404 /\ ~gate[r].params.some
                /\ stage = "not_found" => status = 404 /\ ~gate[r].secret_key.some
                /\ stage = "verify" => status = 401 /\ gate[r].verify = "false"

C3_Witness ==
    \E r \in Reqs :
        /\ pc[r] = "rejected"
        /\ req[r].tamper = "unknown_key"
        /\ gate[r].failed_at = "not_found"
        /\ resp[r].status = 404

\* C4: a VerifiedRequest exists only once verify_headers returned true; its
\* namespace is its access_key, which is the access key of the Authorization
\* header and the key the secret was looked up under; its bytes are the whole
\* body, the one the verification covered.
C4_VerifiedRequest ==
    \A r \in Reqs :
        /\ gate[r].verify # "true" => ~ctx[r].some
        /\ ctx[r].some =>
            LET v == ctx[r].val
            IN  /\ gate[r].verify = "true"
                /\ v.namespace = v.access_key
                /\ v.access_key = req[r].client.sent_key
                /\ v.access_key = gate[r].params.val.access_key
                /\ gate[r].looked_up = Some(SecretKeyOf(v.access_key))
                /\ gate[r].secret_key = redis_get(SecretKeyOf(v.access_key))
                /\ v.bytes = req[r].body
                /\ verify_headers(req[r].headers, gate[r].params.val, req[r].method,
                                  external_server_host \o req[r].uri,
                                  Redis[SecretKeyOf(v.access_key)], v.bytes) = "true"

C4_Witness ==
    \E r \in Reqs : ctx[r].some /\ ctx[r].val.namespace = <<"B">> /\ pc[r] = "verified"

DeclaredHeaderMissing(q) ==
    \E i \in 1..Len(q.client.declared) : q.client.declared[i] \notin DOMAIN q.headers

\* C5: a request that declares a signed header it does not carry is rejected by
\* the parser: no Credential Store lookup and no signature computation happens
\* for it.
C5_MissingSignedHeader ==
    \A r \in Reqs :
        (/\ pc[r] \notin {"idle", "received", "buffered", "retired"}
         /\ gate[r].failed_at # "body"
         /\ DeclaredHeaderMissing(req[r]))
        => /\ pc[r] = "rejected"
           /\ gate[r].failed_at = "parse"
           /\ ~gate[r].params.some
           /\ gate[r].lookups = 0
           /\ ~gate[r].looked_up.some
           /\ gate[r].verify = "-"

C5_Witness ==
    \E r \in Reqs :
        /\ pc[r] = "rejected"
        /\ req[r].tamper = "missing_sha"
        /\ "x-amz-content-sha256" \notin DOMAIN req[r].headers
        /\ gate[r].failed_at = "parse"

NotAsciiAlnum(key) == key = <<>> \/ \E i \in 1..Len(key) : key[i] \notin AsciiAlnumSymbols

\* C6: the parser returns none for an access key that is empty or holds a
\* character that is not ASCII-alphanumeric; a successful parse yields the
\* header's access key, non-empty and ASCII-alphanumeric.
C6_AccessKeyValidated ==
    fout.stage # "drawn" =>
        LET sent == fin.val.request.client.sent_key
        IN  /\ NotAsciiAlnum(sent) => ~fout.params.some
            /\ fout.params.some =>
                  /\ fout.params.val.access_key = sent
                  /\ ~NotAsciiAlnum(fout.params.val.access_key)

C6_Witness ==
    /\ fout.stage = "parsed"
    /\ fin.val.request.tamper = "bad_key_unicode"
    /\ ~fout.params.some

\* The request is as its client signed it, and is verified against the URL
\* the client signed.
AsSigned(input) ==
    /\ input.request.tamper \in {"none", "wrong_secret"}
    /\ input.full_host = external_server_host \o input.request.uri

\* C7: for a request signed by a client with secret key K, verify_headers
\* returns true given K and false given any other secret key.
C7_SecretDecides ==
    (fout.stage \in {"verified", "changed"} /\ AsSigned(fin.val)) =>
        /\ fin.val.secret_key = fin.val.request.client.secret_key => fout.result = "true"
        /\ fin.val.secret_key # fin.val.request.client.secret_key => fout.result = "false"

C7_Witness ==
    /\ fout.stage = "verified"
    /\ AsSigned(fin.val)
    /\ fin.val.request.tamper = "none"
    /\ fin.val.secret_key = fin.val.request.client.secret_key
    /\ fout.result = "true"

\* C8: once verify_headers returned true for a request, changing the value of
\* any one header named in SignedHeaders makes it return false.
C8_SignedHeaderChangeRejected ==
    fout.stage = "changed" => fout.result2 = "false"

\* C9: verify_headers returns a boolean for every input: a failure to build
\* the signable request or to read a header as text gives false, not a panic.
C9_VerifyTotal ==
    fout.stage \in {"verified", "changed"} => fout.result \in {"true", "false"}

\* The bucket's directory is in the store.
BucketExists(be, st, namespace, bucket_name) ==
    LET key == StoreKey(be, BucketDirPath(namespace, bucket_name))
    IN  \E e \in st : IsPrefix(key, e.key) /\ (e.dir \/ Len(e.key) > Len(key))

\* C10: PutObject and GetObject write, stat or read only when the bucket
\* exists; when it does not, they issue none of these and leave the Object
\* Store as it was.
C10_BucketGuard ==
    \A r \in Reqs :
        (/\ ctx[r].some
         /\ req[r].op \in {"PutObject", "GetObject"}
         /\ ~BucketExists(backend, before[r], ctx[r].val.namespace, req[r].bucket_name))
        => /\ ~Called(r, {"write_with", "stat", "reader"})
           /\ store = before[r]
           /\ pc[r] = "done" => resp[r].status \in {404, 500}
\* The request is a CreateBucket whose body create_bucket accepts.
WellFormedCreateBucket(q) ==
    /\ q.op = "CreateBucket"
    /\ from_utf8(q.body).some
    /\ CreateBucketBodyParses(q.body)

\* The directories CreateBucket(namespace, bucket_name) makes are in the store.
BucketCreated(be, st, namespace, bucket_name) ==
    /\ DirEntry(StoreKey(be, NamespacePath(namespace))) \in st
    /\ DirEntry(StoreKey(be, BucketDirPath(namespace, bucket_name))) \in st

\* C11: CreateBucket(ns, b) succeeds whenever the backend does, also when the
\* bucket is already there; repeated, it leaves the store as the first call
\* left it, keeps the objects of the bucket, and the store holds one directory
\* entry for b under ns.
C11_CreateBucketIdempotent ==
    \A r \in Reqs :
        (pc[r] = "done" /\ WellFormedCreateBucket(req[r])) =>
            LET namespace == ctx[r].val.namespace
                key == StoreKey(backend, BucketDirPath(namespace, req[r].bucket_name))
            IN  /\ resp[r].status \in {200, 500}
                /\ resp[r].status = 200 =>
                    /\ BucketCreated(backend, store, namespace, req[r].bucket_name)
                    /\ Cardinality({e \in store : e.key = key}) = 1
                    /\ {e \in before[r] : ~e.dir} \subseteq store
                    /\ BucketCreated(backend, before[r], namespace, req[r].bucket_name)
                          => store = before[r]

C11_Witness ==
    \E r \in Reqs :
        /\ pc[r] = "done"
        /\ WellFormedCreateBucket(req[r])
        /\ resp[r].status = 200
        /\ BucketCreated(backend, before[r], ctx[r].val.namespace, req[r].bucket_name)
        /\ \E e \in before[r] :
              /\ ~e.dir
              /\ IsPrefix(StoreKey(backend, BucketDirPath(ctx[r].val.namespace,
                                                          req[r].bucket_name)), e.key)
\* C12: once CreateBucket(ns, b) has succeeded, PutObject(ns, b, k) succeeds
\* whenever the backend does and stores the body with its content-type; a
\* GetObject(ns, b, k) of a stored object succeeds and returns its bytes, its
\* content-type and the number of its bytes as content-length.
C12_PutGetRoundTrip ==
    \A r \in Reqs :
        (/\ pc[r] = "done"
         /\ req[r].op \in {"PutObject", "GetObject"}
         /\ BucketCreated(backend, before[r], ctx[r].val.namespace, req[r].bucket_name))
        => LET path == ObjectPath(ctx[r].val.namespace, req[r].bucket_name,
                                  req[r].object_name)
               sent == [content_type |-> get_str(req[r].headers, "content-type"),
                        content_length |-> Len(req[r].body)]
           IN  /\ req[r].op = "PutObject" =>
                    /\ resp[r].status \in {200, 500}
                    /\ resp[r].status = 200 =>
                          /\ stat(backend, store, path) = Some(sent)
                          /\ reader(backend, store, path) = Some(req[r].body)
               /\ (req[r].op = "GetObject" /\ stat(backend, before[r], path).some) =>
                    /\ resp[r].status \in {200, 500}
                    /\ resp[r].status = 200 =>
                          /\ Some(resp[r].body) = reader(backend, before[r], path)
                          /\ Some([content_type |-> resp[r].content_type,
                                   content_length |-> resp[r].content_length])
                                = stat(backend, before[r], path)
                          /\ resp[r].content_length = Len(resp[r].body)
\* The names of the directories directly under {namespace}/.
ChildDirectories(be, st, namespace) ==
    LET key == StoreKey(be, NamespacePath(namespace))
        n   == Len(key)
    IN  { e.key[n + 1] :
            e \in {x \in st : /\ IsPrefix(key, x.key)
                              /\ \/ Len(x.key) > n + 1
                                 \/ Len(x.key) = n + 1 /\ x.dir} }

\* C13: ListBuckets(ns) returns one record for each directory directly under
\* {ns}/, named without a trailing slash, and no other record: none for a
\* file, for the namespace directory, for a nested entry or for a bucket of
\* another namespace.
C13_ListBuckets ==
    \A r \in Reqs :
        (pc[r] = "done" /\ req[r].op = "ListBuckets" /\ resp[r].status = 200) =>
            /\ resp[r].buckets = ChildDirectories(backend, before[r], ctx[r].val.namespace)
            /\ \A name \in resp[r].buckets :
                  /\ "/" \notin Range(name)
                  /\ name # ctx[r].val.namespace
                  /\ \E e \in before[r] :
                        IsPrefix(StoreKey(backend, NamespacePath(ctx[r].val.namespace))
                                 \o <<name>>, e.key)

C13_Witness ==
    \E r \in Reqs :
        /\ pc[r] = "done"
        /\ req[r].op = "ListBuckets"
        /\ resp[r].status = 200
        /\ resp[r].buckets = {Bucket1}
        /\ \E e \in before[r] : ~e.dir
        /\ \E e \in before[r] : e.key[1] # ctx[r].val.namespace
\* C14: two requests the gate rejects with the same status get the same
\* response, whatever made each of them fail.
C14_CauseIndistinguishable ==
    \A r1, r2 \in Reqs :
        (/\ pc[r1] = "rejected"
         /\ pc[r2] = "rejected"
         /\ resp[r1].status = resp[r2].status)
        => resp[r1] = resp[r2]
Writes(r) == SelectSeq(ops[r], LAMBDA c : c.call = "write_with")

\* What PutObject request q stores under the object's key.
Written(be, q) ==
    FileEntry(StoreKey(be, ObjectPath(q.client.access_key, q.bucket_name, q.object_name)),
              q.body, get_str(q.headers, "content-type"))

\* Every file of the store is whole: the bytes and the content-type of one
\* request that wrote it.
NoMixture ==
    \A e \in store :
        ~e.dir => \E r \in Reqs : Writes(r) # <<>> /\ e = Written(backend, req[r])

\* A write waits for no other request, and a request writes once.
OneWriteNoLock ==
    \A r \in Reqs :
        /\ Len(Writes(r)) <= 1
        /\ (pc[r] = "done" /\ resp[r].status = 200) => Len(Writes(r)) = 1
        /\ pc[r] = "create_object_write" => ENABLED create_object_write(r)

\* The write applied in this step is what the object holds after it.
LastWriteWins ==
    \A r \in Reqs :
        (pc[r] = "create_object_write" /\ pc'[r] = "done" /\ resp'[r].status = 200) =>
            LET key == Written(backend, req[r]).key
            IN  {e \in store' : e.key = key /\ ~e.dir} = {Written(backend, req[r])}

C15_CreateBucketBody ==
    \A r \in Reqs :
        (pc[r] = "done" /\ req[r].op = "CreateBucket") =>
            IF WellFormedCreateBucket(req[r])
            THEN /\ resp[r].status \in {200, 500}
                 /\ resp[r].status = 200 =>
                       BucketCreated(backend, store, ctx[r].val.namespace,
                                     req[r].bucket_name)
            ELSE /\ resp[r].status = 400
                 /\ ops[r] = <<>>
                 /\ store = before[r]

\* The request's x-amz-date is missing or is no YYYYMMDDTHHMMSSZ timestamp.
TimestampUnusable(q) ==
    LET date_str == get_str(q.headers, "x-amz-date")
    IN  ~date_str.some \/ ~parse_date_time(date_str.val).some

\* C17: a request whose timestamp is missing or does not parse, and whose
\* signature therefore cannot be recomputed, is answered Internal.
C17_TimestampFailureInternal ==
    \A r \in Reqs :
        (/\ pc[r] \in Terminal
         /\ gate[r].verify # "-"
         /\ TimestampUnusable(req[r]))
        => /\ pc[r] = "rejected"
           /\ resp[r].status = 500

StageOf(p) ==
    CASE p \in {"received", "buffered"} -> 1
      [] p \in {"parsed", "connected"} -> 2
      [] p = "looked_up" -> 3
      [] p \in {"rejected", "panicked"} -> 0
      [] OTHER -> 4

\* One step of request r through RECEIVED (1), PARSED_AUTH (2),
\* CREDENTIAL_LOOKED_UP (3), VERIFIED (4) and FAILED (0).
StageStep(r) ==
    (pc[r] \notin {"idle", "retired"} /\ pc'[r] # "retired") =>
        LET from == StageOf(pc[r])
            to   == StageOf(pc'[r])
        IN  /\ from \in {0, 4} => to = from
            /\ from \in {1, 2, 3} => to \in {from, from + 1, 0}
            /\ gate'[r].lookups \in {gate[r].lookups, gate[r].lookups + 1}
            /\ gate'[r].lookups <= 1
            /\ gate'[r].lookups # gate[r].lookups => from = 2 /\ gate[r].params.some
            /\ gate'[r].verify # gate[r].verify =>
                  /\ gate[r].verify = "-"
                  /\ from = 3
                  /\ gate[r].secret_key.some
                  /\ gate[r].lookups = 1

\* C18: a request goes through the gate's stages in order, fails from any of
\* them, and leaves neither FAILED nor VERIFIED; the Credential Store is asked
\* once at most and only after the parse, the signature is computed once at
\* most and only after the lookup gave a secret.
C18_StageOrder == [][\A r \in Reqs : StageStep(r)]_vars

C18_Witness ==
    \E r \in Reqs :
        /\ pc[r] = "verified"
        /\ gate[r].lookups = 1
        /\ gate[r].verify = "true"
\* The store once request q of the namespace has had its whole effect on st.
CompleteEffect(be, st, namespace, q) ==
    CASE q.op = "CreateBucket" ->
            create_dir(be, create_dir(be, st, NamespacePath(namespace)),
                       BucketDirPath(namespace, q.bucket_name))
      [] q.op = "PutObject" ->
            write_with(be, st, ObjectPath(namespace, q.bucket_name, q.object_name),
                       q.body, get_str(q.headers, "content-type"))
      [] OTHER -> st

\* C16: a request whose task is dropped at an await leaves the Object Store
\* as it was before the request or with the request's whole effect; dropped
\* before its verification completed, it has issued no Object Store call.
C16_CancellationSafe ==
    \A r \in Reqs :
        pc[r] = "cancelled" =>
            IF ctx[r].some
            THEN \/ store = before[r]
                 \/ store = CompleteEffect(backend, before[r], ctx[r].val.namespace, req[r])
            ELSE ops[r] = <<>>
\* C19: two requests that agree on the method, the URL, the body, the secret,
\* the Authorization header and every header SignedHeaders names get the same
\* result from verify_headers, whatever their other headers are.
C19_OnlySignedHeadersCount ==
    fout.stage = "other_changed" => fout.result2 = fout.result
====
